---- MODULE Spec2Model ----
(***************************************************************************)
(* A model of util.py (the environment / executable / interpreter          *)
(* resolver and the process helpers extracted from SublimeLinter3).        *)
(*                                                                         *)
(* Representation                                                          *)
(*   - a string that the code takes apart (a version string, an executable *)
(*     name) is a sequence of one-character / one-token strings;           *)
(*   - a PATH value is the sequence of its ':'-separated entries, so the   *)
(*     empty string '' is <<"">> (Python: ''.split(':') == ['']);          *)
(*   - a file path is <<directory>> \o name; Python's None for a path is   *)
(*     the empty sequence NonePath; None for a version number is None.     *)
(***************************************************************************)
EXTENDS Integers, Sequences, FiniteSets, TLC

VARIABLES
    platform,   \* sublime.platform(): "osx", "linux" or "windows"
    environ,    \* os.environ, the ambient environment of the host process
    pandoc,     \* the "pandoc_path" setting (NoKey when not configured)
    cache,      \* the lru_cache of every memoized function, by function name
    lastOp,     \* the last call made by the host: arguments, outcome, observations
    hostVersion,\* sys.version_info of the embedding host: major and minor
    fs,         \* the paths that are executable regular files right now
    nops,       \* how many calls and changes have happened so far
    tcall,      \* SpecTmp: per thread, the tmpfile / tmpdir call it is running
    tdirs,      \* SpecTmp: the temporary directories that exist
    tfiles,     \* SpecTmp: the files in temporary places that exist, with content
    cwd,        \* SpecTmp: the working directory of the process
    nextTmp,    \* SpecTmp: the number of the next temporary name
    mcall,      \* SpecMemo: per thread, the memoized call it is running
    vstr,       \* SpecVer: the version string handed to extract_major_minor_version
    vavail,     \* SpecVer: available_version handed to version_fulfills_request
    vreq,       \* SpecVer: requested_version handed to version_fulfills_request
    vres,       \* SpecVer: what the last applied function returned
    vout        \* SpecOut: the streams and separator handed to combine_output,
                \* and what it returned

verVars == <<vstr, vavail, vreq, vres, vout>>
tmpVars == <<tcall, tdirs, tfiles, cwd, nextTmp, mcall>>
hostVars == <<platform, environ, pandoc, hostVersion, tmpVars>>

(***************************************************************************)
(* Bounds                                                                  *)
(***************************************************************************)
MaxVerLen == 3      \* longest version string drawn
MaxVerNum == 3      \* largest major / minor number drawn for a version dict
MaxOps == 2         \* SpecPy: calls in one behaviour
MaxCacheOps == 3    \* SpecCache: calls and file-system changes in one behaviour
MaxTmpCalls == 2    \* SpecTmp: communicate / tmpfile / tmpdir calls in one behaviour
NumThreads == 2     \* SpecTmp, SpecMemo: threads of the host that make calls
MaxOutLen == 4      \* SpecOut: most bytes a child writes to stdout
MaxPathOps == 2     \* SpecPath: calls in one behaviour
MaxMemoOps == 3     \* SpecMemo: calls in one behaviour
MaxPosixOps == 2    \* SpecPosix: calls in one behaviour

(***************************************************************************)
(* Version parsing and comparison                                          *)
(***************************************************************************)
\* Python's None where an int is expected (every parsed number is >= 0)
None == -1

Digits == {"0", "1", "2"}
VerAlphabet == Digits \cup {".", "x"}

DigitVal(c) == CASE c = "0" -> 0 [] c = "1" -> 1 [] c = "2" -> 2 [] c = "3" -> 3
                 [] c = "7" -> 7 [] c = "8" -> 8 [] OTHER -> 0

IsDigit(c) == c \in {"0", "1", "2", "3", "7", "8"}

\* int(value) of a run of digits
RECURSIVE ToInt(_)
ToInt(ds) == IF ds = <<>> THEN 0
             ELSE 10 * ToInt(SubSeq(ds, 1, Len(ds) - 1)) + DigitVal(ds[Len(ds)])

\* length of the run of digits \d+ that starts at position i of s
RECURSIVE DigitRun(_, _)
DigitRun(s, i) == IF i > Len(s) \/ ~IsDigit(s[i]) THEN 0 ELSE 1 + DigitRun(s, i + 1)

Version(ma, mi) == [major |-> ma, minor |-> mi]

\* VERSION_RE.match(version): (?P<major>\d+)(?:\.(?P<minor>\d+))? anchored at
\* the start only; the groups of the match, or NoMatch
NoMatch == [matched |-> FALSE, major |-> <<>>, minor |-> <<>>]
\* the pattern with \d in place of \d+ for the major group
VERSION_RE_onedigit(s) ==
    LET n == IF DigitRun(s, 1) = 0 THEN 0 ELSE 1
        m == IF n + 1 <= Len(s) /\ s[n + 1] = "." THEN DigitRun(s, n + 2) ELSE 0
    IN  IF n = 0 THEN NoMatch
        ELSE [matched |-> TRUE,
              major   |-> SubSeq(s, 1, n),
              minor   |-> IF m = 0 THEN <<>> ELSE SubSeq(s, n + 2, n + 1 + m)]

VERSION_RE(s) ==
    LET n == DigitRun(s, 1)
        m == IF n + 1 <= Len(s) /\ s[n + 1] = "." THEN DigitRun(s, n + 2) ELSE 0
    IN  IF n = 0 THEN NoMatch
        ELSE [matched |-> TRUE,
              major   |-> SubSeq(s, 1, n),
              minor   |-> IF m = 0 THEN <<>> ELSE SubSeq(s, n + 2, n + 1 + m)]

extract_major_minor_version(version) ==
    LET match == VERSION_RE(version)
    IN  IF match.matched
        THEN Version(ToInt(match.major),
                     IF match.minor = <<>> THEN None ELSE ToInt(match.minor))
        ELSE Version(None, None)

\* the comparison with > in place of >= for the minor version
version_fulfills_request_strict(available_version, requested_version) ==
    IF requested_version.major = None THEN TRUE
    ELSE IF requested_version.major # available_version.major THEN FALSE
    ELSE IF requested_version.minor = None THEN TRUE
    ELSE available_version.minor # None
         /\ available_version.minor > requested_version.minor

version_fulfills_request(available_version, requested_version) ==
    IF requested_version.major = None THEN TRUE
    ELSE IF requested_version.major # available_version.major THEN FALSE
    ELSE IF requested_version.minor = None THEN TRUE
    ELSE available_version.minor # None
         /\ available_version.minor >= requested_version.minor

(***************************************************************************)
(* Environments                                                            *)
(***************************************************************************)
\* a key that is not in a mapping (string-valued keys); an unset PATH is <<>>
NoKey == "<unset>"
NoPath == <<>>

Platforms == {"osx", "linux", "windows"}
OsName == IF platform \in {"osx", "linux"} THEN "posix" ELSE "nt"

\* the values of $SHELL drawn, and os.path.basename of each
Shells == {NoKey, "/bin/bash", "/bin/zsh", "/usr/bin/fish", "/bin/sh"}
Basename(shell_path) ==
    CASE shell_path = "/bin/bash" -> "bash"
      [] shell_path = "/bin/zsh" -> "zsh"
      [] shell_path = "/usr/bin/fish" -> "fish"
      [] shell_path = "/bin/sh" -> "sh"
      [] OTHER -> shell_path

\* the values of the ambient PATH drawn ('' is <<"">>)
AmbientPaths == {NoPath, <<"">>, <<"/a", "/b">>, <<"/usr/local/bin", "/a">>}
PandocSettings == {NoKey, "/opt/pandoc"}

Env(path, shell, enc, foo) ==
    [PATH |-> path, SHELL |-> shell, PYTHONIOENCODING |-> enc, FOO |-> foo]

\* an extra_env mapping: a key it does not hold is NoKey / NoPath
NoExtra == [PATH |-> NoPath, FOO |-> NoKey]
ExtraEnvs == {NoExtra, [PATH |-> NoPath, FOO |-> "1"], [PATH |-> <<"/x">>, FOO |-> NoKey]}

\* env.update(extra_env)
DictUpdate(env, extra_env) ==
    [env EXCEPT !.PATH = IF extra_env.PATH # NoPath THEN extra_env.PATH ELSE @,
                !.FOO = IF extra_env.FOO # NoKey THEN extra_env.FOO ELSE @]

(***************************************************************************)
(* lru_cache: one mapping from argument tuple to result per function       *)
(***************************************************************************)
EmptyCache == [k \in {} |-> k]
Cached(c, k) == k \in DOMAIN c
Store(c, k, v) == [x \in DOMAIN c \cup {k} |-> IF x = k THEN v ELSE c[x]]
NoArgs == <<>>
\* create_environment has been computed, and the dict it keeps
EnvCached(c) == Cached(c.create_environment, NoArgs)
EnvValue(c) == c.create_environment[NoArgs]

(***************************************************************************)
(* The login-shell probe                                                   *)
(***************************************************************************)
\* What the shell process does when run_shell_cmd runs it:
\*   nospawn - subprocess.Popen raised, popen returned None
\*   timeout - communicate(timeout=10) raised TimeoutExpired
\*   out     - it printed segs[1] marker segs[2] marker ... ; a segment is
\*             the sequence of its delimiter-separated entries, stripped
Noise == <<"motd">>
ShellPaths == {<<"/s", "/usr/bin">>, <<"/s">>}
ProbeOutputs == {<<<<"">>>>, <<Noise>>}
                \cup {<<Noise, sp>> : sp \in ShellPaths}
                \cup {<<Noise, sp, <<"">>>> : sp \in ShellPaths}
Probe(kind, segs) == [kind |-> kind, segs |-> segs]
Probes == {Probe("nospawn", <<>>), Probe("timeout", <<>>)}
          \cup {Probe("out", o) : o \in ProbeOutputs}

Ret(exc, val) == [exc |-> exc, val |-> val]
Raised(r) == r.exc # ""

\* run_shell_cmd(cmd): the output split at the marker
run_shell_cmd(probe) ==
    IF probe.kind = "nospawn" THEN Ret("AttributeError", <<>>)   \* None.communicate
    ELSE IF probe.kind = "timeout" THEN Ret("", <<<<"">>>>)      \* out = b''
    ELSE Ret("", probe.segs)

\* extract_path(cmd, delim): the middle segment, or '' with an error message
extract_path(probe) ==
    LET middle(out) == IF Raised(out) THEN Ret(out.exc, NoPath)
                       ELSE IF Len(out.val) > 1 THEN Ret("", out.val[2])
                       ELSE Ret("", <<"">>)
    IN  middle(run_shell_cmd(probe))

CommonDirs == <<"/usr/bin", "/usr/local/bin", "/usr/local/php/bin", "/usr/local/php5/bin">>

InSeq(x, seq) == \E i \in 1 .. Len(seq) : seq[i] = x

\* the loop of get_shell_path over the first n of the common directories
RECURSIVE GuessPath(_, _, _)
GuessPath(p, split, n) ==
    IF n = 0 THEN p
    ELSE LET add(q) == IF ~InSeq(CommonDirs[n], split) THEN Append(q, CommonDirs[n]) ELSE q
         IN  add(GuessPath(p, split, n - 1))

get_shell_path(env, probe) ==
    IF env.SHELL # NoKey /\ Basename(env.SHELL) \in {"bash", "zsh"} THEN extract_path(probe)
    ELSE IF env.SHELL # NoKey /\ Basename(env.SHELL) = "fish" THEN extract_path(probe)
    ELSE IF env.PATH = NoPath THEN Ret("KeyError", NoPath)       \* env['PATH']
    ELSE Ret("", GuessPath(env.PATH, env.PATH, Len(CommonDirs)))

\* create_environment building on the environment already cached, if any
create_environment_body_shared(probe) ==
    LET base == IF Cached(cache.create_environment, NoArgs)
                THEN cache.create_environment[NoArgs] ELSE environ
        finish(env) ==
            IF pandoc # NoKey /\ env.PATH = NoPath THEN Ret("KeyError", environ)
            ELSE Ret("", [env EXCEPT !.PATH = IF pandoc # NoKey THEN <<pandoc>> \o @ ELSE @,
                                     !.PYTHONIOENCODING = "utf8"])
        posix(shell) == IF Raised(shell) THEN Ret(shell.exc, environ)
                        ELSE finish([base EXCEPT !.PATH = shell.val])
    IN  IF OsName = "posix" THEN posix(get_shell_path(environ, probe))
        ELSE finish(base)

\* the body of create_environment
create_environment_body(probe) ==
    LET finish(env) ==
            IF pandoc # NoKey /\ env.PATH = NoPath THEN Ret("KeyError", environ)
            ELSE Ret("", [env EXCEPT !.PATH = IF pandoc # NoKey THEN <<pandoc>> \o @ ELSE @,
                                     !.PYTHONIOENCODING = "utf8"])
        posix(shell) == IF Raised(shell) THEN Ret(shell.exc, environ)
                        ELSE finish([environ EXCEPT !.PATH = shell.val])
    IN  IF OsName = "posix" THEN posix(get_shell_path(environ, probe))
        ELSE finish(environ)

\* A memoized call returns the value and the caches after it
MRet(exc, val, c) == [exc |-> exc, val |-> val, c |-> c]

\* @lru_cache create_environment(): the cached dict itself is returned
create_environment(c0, probe) ==
    LET c == [c0 EXCEPT !.calls = @ \cup {"create_environment"}]
        cr == [c EXCEPT !.ran = @ \cup {"create_environment"}]
        store(r) == IF Raised(r) THEN MRet(r.exc, r.val, cr)
                    ELSE MRet("", r.val,
                              [cr EXCEPT !.create_environment = Store(@, NoArgs, r.val)])
    IN  IF Cached(c.create_environment, NoArgs)
        THEN MRet("", c.create_environment[NoArgs], c)
        ELSE store(create_environment_body(probe))

\* popen letting the exception of subprocess.Popen out
popen_raising(c, extra_env, probe, spawns) ==
    LET update(e, env) ==
            [exc |-> IF spawns THEN "" ELSE "OSError", handle |-> spawns, env |-> env,
             c |-> [e.c EXCEPT !.create_environment = Store(@, NoArgs, env)]]
        spawn(e) == IF Raised(e)
                    THEN [exc |-> e.exc, handle |-> FALSE, env |-> environ, c |-> e.c]
                    ELSE update(e, DictUpdate(e.val, extra_env))
    IN  spawn(create_environment(c, probe))

\* popen(cmd, env=None, extra_env): the environment handed to the child, and
\* the handle (ok) or None; env is the cached dict, updated in place
popen(c, extra_env, probe, spawns) ==
    LET update(e, env) ==
            [exc |-> "", handle |-> spawns, env |-> env,
             c |-> [e.c EXCEPT !.create_environment = Store(@, NoArgs, env)]]
        spawn(e) == IF Raised(e)
                    THEN [exc |-> e.exc, handle |-> FALSE, env |-> environ, c |-> e.c]
                    ELSE update(e, DictUpdate(e.val, extra_env))
    IN  spawn(create_environment(c, probe))

\* clear_caches()
clear_caches(c) ==
    [c EXCEPT !.create_environment = EmptyCache,
              !.which = EmptyCache,
              !.find_python = EmptyCache,
              !.get_python_paths = EmptyCache,
              !.find_executable = EmptyCache]

(***************************************************************************)
(* Files and the outside world a call observes                             *)
(***************************************************************************)
\* a file path: the directory and the file name, each a sequence of tokens
Path(dir, name) == [dir |-> dir, name |-> name]
NonePath == Path(<<>>, <<>>)
Builtin == Path(<<>>, <<"<builtin>">>)
\* os.path.join(base, name)
Join(base, name) == Path(<<base>>, name)

\* What a call finds outside the program:
\*   fs     - the paths that are executable regular files (can_exec)
\*   probe  - what the login shell does if run_shell_cmd runs it
\*   banner - the words 'python -V' prints, <<>> if it cannot be spawned
World(f, probe, banner) == [fs |-> f, probe |-> probe, banner |-> banner]

can_exec(W, path) == path \in W.fs

(***************************************************************************)
(* Executable and interpreter lookup                                       *)
(***************************************************************************)
Enter(c, fn) == [c EXCEPT !.calls = @ \cup {fn}]
Run(c, fn) == [c EXCEPT !.ran = @ \cup {fn}]

WinExtensions == <<<<".exe">>, <<".cmd">>, <<".bat">>>>

\* os.path.splitext(path)[1] is not empty: a piece after the first that
\* starts with a dot
DotPieces == {".", ".exe", ".cmd", ".bat"}
HasExtension(name) == \E i \in 2 .. Len(name) : name[i] \in DotPieces

\* the first of the Windows extensions (from the i-th on) that can_exec
RECURSIVE FirstExtension(_, _, _)
FirstExtension(W, path, i) ==
    IF i > Len(WinExtensions) THEN NonePath
    ELSE LET path_ext == Path(path.dir, path.name \o WinExtensions[i])
         IN  IF can_exec(W, path_ext) THEN path_ext ELSE FirstExtension(W, path, i + 1)

\* the loop of find_executable returning the last accepted candidate
RECURSIVE SearchPath_last(_, _, _, _)
SearchPath_last(W, entries, executable, i) ==
    IF i > Len(entries) THEN NonePath
    ELSE LET path == Join(entries[i], executable)
             orThis(later, here) == IF later # NonePath THEN later ELSE here
         IN  IF platform = "windows" /\ ~HasExtension(executable)
             THEN orThis(SearchPath_last(W, entries, executable, i + 1),
                         FirstExtension(W, path, 1))
             ELSE orThis(SearchPath_last(W, entries, executable, i + 1),
                         IF can_exec(W, path) THEN path ELSE NonePath)

\* the loop of find_executable over the PATH entries from the i-th on
RECURSIVE SearchPath(_, _, _, _)
SearchPath(W, entries, executable, i) ==
    IF i > Len(entries) THEN NonePath
    ELSE LET path == Join(entries[i], executable)
             orNext(path_ext) == IF path_ext # NonePath THEN path_ext
                                 ELSE SearchPath(W, entries, executable, i + 1)
         IN  IF platform = "windows" /\ ~HasExtension(executable)
             THEN orNext(FirstExtension(W, path, 1))
             ELSE IF can_exec(W, path) THEN path
             ELSE SearchPath(W, entries, executable, i + 1)

\* find_executable with a cache that takes a stored None for a missing entry
find_executable_nonone(c0, executable, W) ==
    LET c == Enter(c0, "find_executable")
        store(e, path) ==
            MRet("", path, [e.c EXCEPT !.find_executable = Store(@, executable, path)])
        search(e) ==
            IF Raised(e) THEN MRet(e.exc, NonePath, e.c)
            ELSE store(e, SearchPath(W, IF e.val.PATH = NoPath THEN <<"">> ELSE e.val.PATH,
                                     executable, 1))
    IN  IF Cached(c.find_executable, executable) /\ c.find_executable[executable] # NonePath
        THEN MRet("", c.find_executable[executable], c)
        ELSE search(create_environment(Run(c, "find_executable"), W.probe))

\* @lru_cache find_executable(executable)
find_executable(c0, executable, W) ==
    LET c == Enter(c0, "find_executable")
        store(e, path) ==
            MRet("", path, [e.c EXCEPT !.find_executable = Store(@, executable, path)])
        search(e) ==
            IF Raised(e) THEN MRet(e.exc, NonePath, e.c)
            ELSE store(e, SearchPath(W, IF e.val.PATH = NoPath THEN <<"">> ELSE e.val.PATH,
                                     executable, 1))
    IN  IF Cached(c.find_executable, executable)
        THEN MRet("", c.find_executable[executable], c)
        ELSE search(create_environment(Run(c, "find_executable"), W.probe))

\* a version argument that is None, and 'python' + version
NoVersion == <<"<None>">>
PythonName(suffix) == <<"python">> \o suffix

\* find_posix_python trying the major version before the version as given
find_posix_python_majorfirst(c0, version, W) ==
    LET c == Enter(c0, "find_posix_python")
        store(r) ==
            IF Raised(r) THEN r
            ELSE MRet("", r.val, [r.c EXCEPT !.find_posix_python = Store(@, version, r.val)])
        ends(r) == Raised(r) \/ r.val # NonePath
        orDefault(exact) ==
            IF ends(exact) THEN exact ELSE find_executable(exact.c, PythonName(<<>>), W)
        orExact(major) ==
            IF ends(major) THEN major
            ELSE orDefault(find_executable(major.c, PythonName(version), W))
    IN  IF Cached(c.find_posix_python, version)
        THEN MRet("", c.find_posix_python[version], c)
        ELSE IF version # <<>>
        THEN store(orExact(find_executable(Run(c, "find_posix_python"),
                                           PythonName(<<version[1]>>), W)))
        ELSE store(find_executable(Run(c, "find_posix_python"), PythonName(<<>>), W))

\* @lru_cache find_posix_python(version)
find_posix_python(c0, version, W) ==
    LET c == Enter(c0, "find_posix_python")
        store(r) ==
            IF Raised(r) THEN r
            ELSE MRet("", r.val, [r.c EXCEPT !.find_posix_python = Store(@, version, r.val)])
        ends(r) == Raised(r) \/ r.val # NonePath
        orDefault(major) ==
            IF ends(major) THEN major ELSE find_executable(major.c, PythonName(<<>>), W)
        orMajor(exact) ==
            IF ends(exact) THEN exact
            ELSE orDefault(find_executable(exact.c, PythonName(<<version[1]>>), W))
    IN  IF Cached(c.find_posix_python, version)
        THEN MRet("", c.find_posix_python[version], c)
        ELSE IF version # <<>>
        THEN store(orMajor(find_executable(Run(c, "find_posix_python"),
                                           PythonName(version), W)))
        ELSE store(find_executable(Run(c, "find_posix_python"), PythonName(<<>>), W))

\* the root-level 'Python*' directories in the order glob lists them, each
\* named by what follows the prefix
WinPythonDirs == <<<<"2", "7">>, <<"3", "8">>>>
WinPythonPath(suffix) == Path(<<"\\Python">> \o suffix, <<"python.exe">>)

StartsWith(str, prefix) ==
    Len(prefix) <= Len(str) /\ SubSeq(str, 1, Len(prefix)) = prefix
NotDot(ch) == ch # "."

\* the inner loop of find_windows_python over the directories from the i-th on
RECURSIVE MatchDir(_, _, _)
MatchDir(W, version, i) ==
    IF i > Len(WinPythonDirs) THEN NonePath
    ELSE IF StartsWith(WinPythonDirs[i], version) /\ can_exec(W, WinPythonPath(WinPythonDirs[i]))
         THEN WinPythonPath(WinPythonDirs[i])
         ELSE MatchDir(W, version, i + 1)

\* @lru_cache find_windows_python(version)
find_windows_python(c0, version, W) ==
    LET c == Enter(c0, "find_windows_python")
        cr == Run(c, "find_windows_python")
        stripped_version == SelectSeq(version, NotDot)
        store(r) ==
            IF Raised(r) THEN r
            ELSE MRet("", r.val, [r.c EXCEPT !.find_windows_python = Store(@, version, r.val)])
        orDefault(major) ==
            IF major # NonePath THEN MRet("", major, cr)
            ELSE find_executable(cr, PythonName(<<>>), W)
        orMajor(exact) ==
            IF exact # NonePath THEN MRet("", exact, cr)
            ELSE orDefault(MatchDir(W, <<stripped_version[1]>>, 1))
    IN  IF Cached(c.find_windows_python, version)
        THEN MRet("", c.find_windows_python[version], c)
        ELSE IF version # <<>> /\ stripped_version = <<>>
        THEN MRet("IndexError", NonePath, cr)                \* stripped_version[0]
        ELSE IF version # <<>> THEN store(orMajor(MatchDir(W, stripped_version, 1)))
        ELSE store(find_executable(cr, PythonName(<<>>), W))

\* get_python_version answering with the host's version when the query fails
get_python_version_hostdefault(c0, path, W) ==
    LET c == Enter(c0, "get_python_version")
        store(out, version) ==
            MRet("", version, [out.c EXCEPT !.get_python_version = Store(@, path, version)])
        parse(out) ==
            store(out, IF Raised(out) \/ ~out.handle \/ Len(W.banner) < 2
                       THEN hostVersion
                       ELSE IF VERSION_RE(W.banner[2]) = NoMatch THEN hostVersion
                       ELSE extract_major_minor_version(W.banner[2]))
    IN  IF Cached(c.get_python_version, path)
        THEN MRet("", c.get_python_version[path], c)
        ELSE parse(popen(Run(c, "get_python_version"), NoExtra, W.probe, W.banner # <<>>))

\* @lru_cache get_python_version(path): communicate((path, '-V'), '',
\* STREAM_BOTH), then output.split(' ')[1]; every exception gives unknown
get_python_version(c0, path, W) ==
    LET c == Enter(c0, "get_python_version")
        store(out, version) ==
            MRet("", version, [out.c EXCEPT !.get_python_version = Store(@, path, version)])
        parse(out) ==
            store(out, IF Raised(out) \/ ~out.handle \/ Len(W.banner) < 2
                       THEN Version(None, None)
                       ELSE extract_major_minor_version(W.banner[2]))
    IN  IF Cached(c.get_python_version, path)
        THEN MRet("", c.get_python_version[path], c)
        ELSE parse(popen(Run(c, "get_python_version"), NoExtra, W.probe, W.banner # <<>>))

\* a script argument that is None; a module argument is None iff ~module
NoScript == <<>>

\* which(cmd) for a cmd that PYTHON_CMD_RE does not match: find_executable
which_executable(c0, cmd, W) ==
    LET c == Enter(c0, "which")
        key == <<cmd, FALSE>>
        store(r) ==
            IF Raised(r) THEN r
            ELSE MRet("", r.val, [r.c EXCEPT !.which = Store(@, key, [path |-> r.val,
                                                                       script |-> NonePath])])
    IN  IF Cached(c.which, key) THEN MRet("", c.which[key].path, c)
        ELSE store(find_executable(Run(c, "which"), cmd, W))

\* @lru_cache find_python_script(python_path, script)
find_python_script(c0, python_path, script, W) ==
    LET c == Enter(c0, "find_python_script")
        cr == Run(c, "find_python_script")
        key == <<python_path, script>>
        script_path == Path(python_path.dir \o <<"Scripts">>, script \o <<"-script.py">>)
        store(r) ==
            IF Raised(r) THEN r
            ELSE MRet("", r.val, [r.c EXCEPT !.find_python_script = Store(@, key, r.val)])
    IN  IF Cached(c.find_python_script, key)
        THEN MRet("", c.find_python_script[key], c)
        ELSE IF platform \in {"osx", "linux"} THEN store(which_executable(cr, script, W))
        ELSE IF script_path \in W.fs THEN store(MRet("", script_path, cr))
        ELSE store(MRet("", NonePath, cr))

Candidate(path, script_path, version) ==
    [path |-> path, script |-> script_path, major |-> version.major, minor |-> version.minor]

NoCandidate == Candidate(NonePath, NonePath, Version(None, None))

\* VerifyPython keeping the interpreter when its script is not found
VerifyPython_keeppath(c, found, script, requested_version, available_version, W) ==
    LET withScript(probed, sp) ==
            IF Raised(sp) THEN sp
            ELSE MRet("", Candidate(found, sp.val, probed.val), sp.c)
        verify(probed) ==
            IF version_fulfills_request(probed.val, requested_version)
            THEN IF script # NoScript
                 THEN withScript(probed, find_python_script(probed.c, found, script, W))
                 ELSE MRet("", Candidate(found, NonePath, probed.val), probed.c)
            ELSE MRet("", Candidate(NonePath, NonePath, probed.val), probed.c)
    IN  IF found # NonePath /\ found # Builtin
        THEN verify(get_python_version(c, found, W))
        ELSE MRet("", Candidate(found, NonePath, available_version), c)

\* VerifyPython handing the script name back with the builtin python
VerifyPython_passscript(c, found, script, requested_version, available_version, W) ==
    LET withScript(probed, sp) ==
            IF Raised(sp) THEN sp
            ELSE MRet("", Candidate(IF sp.val = NonePath THEN NonePath ELSE found,
                                    sp.val, probed.val), sp.c)
        verify(probed) ==
            IF version_fulfills_request(probed.val, requested_version)
            THEN IF script # NoScript
                 THEN withScript(probed, find_python_script(probed.c, found, script, W))
                 ELSE MRet("", Candidate(found, NonePath, probed.val), probed.c)
            ELSE MRet("", Candidate(NonePath, NonePath, probed.val), probed.c)
    IN  IF found # NonePath /\ found # Builtin
        THEN verify(get_python_version(c, found, W))
        ELSE MRet("", Candidate(found, IF found = Builtin THEN Path(<<>>, script)
                                       ELSE NonePath, available_version), c)

\* the part of find_python from 'if path and path != "<builtin>"' on
VerifyPython(c, found, script, requested_version, available_version, W) ==
    LET withScript(probed, sp) ==
            IF Raised(sp) THEN sp
            ELSE MRet("", Candidate(IF sp.val = NonePath THEN NonePath ELSE found,
                                    sp.val, probed.val), sp.c)
        verify(probed) ==
            IF version_fulfills_request(probed.val, requested_version)
            THEN IF script # NoScript
                 THEN withScript(probed, find_python_script(probed.c, found, script, W))
                 ELSE MRet("", Candidate(found, NonePath, probed.val), probed.c)
            ELSE MRet("", Candidate(NonePath, NonePath, probed.val), probed.c)
    IN  IF found # NonePath /\ found # Builtin
        THEN verify(get_python_version(c, found, W))
        ELSE MRet("", Candidate(found, NonePath, available_version), c)

\* find_python taking the builtin python for every request made with a module
find_python_body_nocheck(c, version, script, module, W) ==
    LET available_version == IF module THEN hostVersion ELSE Version(None, None)
        requested_version == extract_major_minor_version(version)
        use(r, request) ==
            IF Raised(r) THEN r
            ELSE VerifyPython(r.c, r.val, script, request, available_version, W)
    IN  IF version = NoVersion
        THEN IF module
             THEN MRet("", Candidate(Builtin, Path(<<>>, script), available_version), c)
             ELSE use(find_executable(c, PythonName(<<>>), W), Version(None, None))
        ELSE IF ~module
             THEN IF platform \in {"osx", "linux"}
                  THEN use(find_posix_python(c, version, W), requested_version)
                  ELSE use(find_windows_python(c, version, W), requested_version)
             ELSE use(MRet("", Builtin, c), requested_version)

\* the body of find_python; hostVersion is sys.version_info
find_python_body(c, version, script, module, W) ==
    LET available_version == IF module THEN hostVersion ELSE Version(None, None)
        requested_version == extract_major_minor_version(version)
        need_system_python ==
            ~module \/ ~version_fulfills_request(available_version, requested_version)
        use(r, request) ==
            IF Raised(r) THEN r
            ELSE VerifyPython(r.c, r.val, script, request, available_version, W)
    IN  IF version = NoVersion
        THEN IF module
             THEN MRet("", Candidate(Builtin, Path(<<>>, script), available_version), c)
             ELSE use(find_executable(c, PythonName(<<>>), W), Version(None, None))
        ELSE IF need_system_python
             THEN IF platform \in {"osx", "linux"}
                  THEN use(find_posix_python(c, version, W), requested_version)
                  ELSE use(find_windows_python(c, version, W), requested_version)
             ELSE use(MRet("", Builtin, c), requested_version)

\* @lru_cache find_python(version=None, script=None, module=None)
find_python(c0, version, script, module, W) ==
    LET c == Enter(c0, "find_python")
        key == <<version, script, module>>
        store(r) ==
            IF Raised(r) THEN MRet(r.exc, NoCandidate, r.c)
            ELSE MRet("", r.val, [r.c EXCEPT !.find_python = Store(@, key, r.val)])
    IN  IF Cached(c.find_python, key) THEN MRet("", c.find_python[key], c)
        ELSE store(find_python_body(Run(c, "find_python"), version, script, module, W))

\* PYTHON_CMD_RE.match(cmd): cmd is [script] "@python" [version]
IsPythonCmd(cmd) == \E i \in 1 .. Len(cmd) : cmd[i] = "@python" /\ i <= 2
PythonCmdAt(cmd) == CHOOSE i \in 1 .. Len(cmd) : cmd[i] = "@python"
PythonCmdScript(cmd) == SubSeq(cmd, 1, PythonCmdAt(cmd) - 1)
PythonCmdVersion(cmd) ==
    IF PythonCmdAt(cmd) = Len(cmd) THEN NoVersion
    ELSE SubSeq(cmd, PythonCmdAt(cmd) + 1, Len(cmd))

\* @lru_cache which(cmd, module=None)
which(c0, cmd, module, W) ==
    LET c == Enter(c0, "which")
        key == <<cmd, module>>
        store(r) ==
            IF Raised(r) THEN MRet(r.exc, [path |-> NonePath, script |-> NonePath], r.c)
            ELSE MRet("", r.val, [r.c EXCEPT !.which = Store(@, key, r.val)])
        ofPython(py) ==
            store(MRet(py.exc, [path |-> py.val.path, script |-> py.val.script], py.c))
        ofExecutable(ex) ==
            store(MRet(ex.exc, [path |-> ex.val, script |-> NonePath], ex.c))
    IN  IF Cached(c.which, key) THEN MRet("", c.which[key], c)
        ELSE IF IsPythonCmd(cmd)
        THEN ofPython(find_python(Run(c, "which"), PythonCmdVersion(cmd),
                                  PythonCmdScript(cmd), module, W))
        ELSE ofExecutable(find_executable(Run(c, "which"), cmd, W))

\* @lru_cache get_python_paths(): the lines python 3 prints, [] without one
get_python_paths(c0, W) ==
    LET c == Enter(c0, "get_python_paths")
        store(r, paths) ==
            MRet("", paths, [r.c EXCEPT !.get_python_paths = Store(@, NoArgs, paths)])
        read(out) ==
            IF Raised(out) THEN MRet(out.exc, <<>>, out.c)
            ELSE store(out, IF out.handle THEN W.banner ELSE <<>>)
        ask(w) ==
            IF Raised(w) THEN MRet(w.exc, <<>>, w.c)
            ELSE IF w.val.path = NonePath THEN store(w, <<>>)
            ELSE read(popen(w.c, NoExtra, W.probe, W.banner # <<>>))
    IN  IF Cached(c.get_python_paths, NoArgs) THEN MRet("", c.get_python_paths[NoArgs], c)
        ELSE ask(which(Run(c, "get_python_paths"), <<"@python", "3">>, FALSE, W))

\* @lru_cache get_environment_variable(name): the value as <<value>>, None
\* as <<>>; on POSIX the login shell prints it between two markers
get_environment_variable(c0, name, W) ==
    LET c == Enter(c0, "get_environment_variable")
        cr == Run(c, "get_environment_variable")
        store(r) ==
            IF Raised(r) THEN MRet(r.exc, <<>>, cr)
            ELSE MRet("", r.val, [cr EXCEPT !.get_environment_variable = Store(@, name, r.val)])
        value(out) ==
            IF Raised(out) THEN Ret(out.exc, <<>>)
            ELSE IF out.val = <<<<"">>>> THEN Ret("", <<>>)          \* if out:
            ELSE IF Len(out.val) < 2 THEN Ret("IndexError", <<>>)   \* split(...)[1]
            ELSE IF out.val[2] = <<"">> THEN Ret("", <<>>)          \* or None
            ELSE Ret("", <<out.val[2]>>)
    IN  IF Cached(c.get_environment_variable, name)
        THEN MRet("", c.get_environment_variable[name], c)
        ELSE IF OsName = "posix"
        THEN IF environ.SHELL = NoKey THEN store(Ret("", <<>>))
             ELSE store(value(run_shell_cmd(W.probe)))
        ELSE IF environ[name] = NoKey THEN store(Ret("", <<>>))
        ELSE store(Ret("", <<environ[name]>>))

(***************************************************************************)
(* Output of a child                                                       *)
(***************************************************************************)
\* bytes are sequences of byte values, text is a sequence of characters;
\* a stream that was not captured is None
NoBytes == <<None>>
Esc == "\\033"
Utf8 == [b \in {27, 49, 91, 109, 120} |->
            CASE b = 27 -> Esc [] b = 49 -> "1" [] b = 91 -> "[" [] b = 109 -> "m"
              [] b = 120 -> "x"]
\* bytes.decode('utf8')
Decode(bytes) == [i \in 1 .. Len(bytes) |-> Utf8[bytes[i]]]

\* ANSI_COLOR_RE = \033\[[0-9;]*m matched at position i of text: the position
\* of its last character, 0 if it does not match there
RECURSIVE ParamsEnd(_, _)
ParamsEnd(text, j) ==
    IF j <= Len(text) /\ text[j] \in Digits \cup {";"} THEN ParamsEnd(text, j + 1) ELSE j
AnsiEnd(text, i) ==
    IF text[i] = Esc /\ i + 1 <= Len(text) /\ text[i + 1] = "["
    THEN LET closes(j) == IF j <= Len(text) /\ text[j] = "m" THEN j ELSE 0
         IN  closes(ParamsEnd(text, i + 2))
    ELSE 0
\* ANSI_COLOR_RE.sub('', text) from position i on
RECURSIVE StripAnsi(_, _)
StripAnsi(text, i) ==
    IF i > Len(text) THEN <<>>
    ELSE IF AnsiEnd(text, i) # 0 THEN StripAnsi(text, AnsiEnd(text, i) + 1)
    ELSE <<text[i]>> \o StripAnsi(text, i + 1)

\* combine_output(out, sep)
combine_output(out, sep) ==
    LET text(stream) == IF stream # NoBytes /\ stream # <<>> THEN Decode(stream) ELSE <<>>
    IN  StripAnsi(text(out[1]) \o sep \o text(out[2]), 1)

(***************************************************************************)
(* Temporary files and directories                                         *)
(***************************************************************************)
Threads == 1 .. NumThreads
\* the working directory the host starts in; a temporary place is a number
Home == 0
\* a relative file path: its directory ("" for none) and its base name
File(dir, base) == [dir |-> dir, base |-> base]
\* the project files that exist on disk under Home
ProjectFiles == {File("", "a.py"), File("", "b.py"), File("pkg", "c.py"), File("pkg", "a.py")}
\* the file lists and the edited file names the host passes to tmpdir
FileLists == {<<>>, <<File("", "a.py"), File("", "b.py")>>,
              <<File("pkg", "c.py"), File("", "a.py")>>, <<File("", "gone.py")>>}
\* the commands the host passes; "@" is the placeholder of tmpfile
TmpCmds == {<<"tool">>, <<"tool", "@", "-x">>}

\* a line of tool output: what precedes its first colon, written as the
\* pieces it is made of ("data.py" is "dat" then "a.py"), and the rest
Line(head, rest) == [head |-> head, rest |-> rest]
Outputs == {<<>>, <<Line(<<"a.py">>, "1: error"), Line(<<"b.py">>, "2: error")>>,
            <<Line(<<"pkg/", "a.py">>, "3: error"), Line(<<"note">>, ""),
              Line(<<"dat", "a.py">>, "4: error")>>}
\* filename in line.split(':', 1)[0]: the name is one of the pieces
Contains(head, filename) == \E i \in 1 .. Len(head) : head[i] = filename

IdleCall == [fn |-> "none", pc |-> "idle", tmp |-> Home, files |-> <<>>, i |-> 0,
             filename |-> "", given |-> <<>>, cmd |-> <<>>, extra |-> NoExtra, handle |-> FALSE,
             out |-> <<>>, exc |-> "", removals |-> 0, spawnCwd |-> Home,
             spawn |-> "none", raw |-> <<>>]

\* a thread outside every memoized call; a result is an environment, a file
\* or a candidate, by the function called
IdleMemo == [fn |-> "none", pc |-> "idle", key |-> <<>>, exc |-> "",
             env |-> Env(NoPath, NoKey, NoKey, NoKey), file |-> NonePath,
             result |-> NoCandidate, computed |-> FALSE]

IdleTmp ==
    /\ tcall = [t \in Threads |-> IdleCall]
    /\ tdirs = {} /\ tfiles = EmptyCache /\ cwd = Home /\ nextTmp = 1
    /\ mcall = [t \in Threads |-> IdleMemo]

\* the index of the first placeholder of cmd, 0 if it has none
FirstAt(cmd) == IF \E i \in 1 .. Len(cmd) : cmd[i] = "@"
                THEN CHOOSE i \in 1 .. Len(cmd) :
                        cmd[i] = "@" /\ \A j \in 1 .. i - 1 : cmd[j] # "@"
                ELSE 0
\* cmd[cmd.index('@')] = f.name, or cmd.append(f.name); "f.name" stands for
\* the name of the temporary file n of the call
WithFile(cmd, n) ==
    IF FirstAt(cmd) # 0 THEN [cmd EXCEPT ![FirstAt(cmd)] = "f.name"]
    ELSE Append(cmd, "f.name")

\* the files under temporary place n
Under(n) == {k \in DOMAIN tfiles : k[1] = n}
Without(files, keys) == [k \in DOMAIN files \ keys |-> files[k]]

\* the source of shutil.copyfile(f, target) is looked up from the working
\* directory: a project file under Home, or a file of the mirror that is the
\* working directory now
SourceExists(f) ==
    IF cwd = Home THEN f \in ProjectFiles ELSE <<cwd, f>> \in DOMAIN tfiles
SourceContent(f) == IF cwd = Home THEN <<"disk", f>> ELSE tfiles[<<cwd, f>>]

(***************************************************************************)
(* What the host last called                                               *)
(***************************************************************************)
CachedFunctions ==
    {"create_environment", "which", "find_python", "get_python_paths", "find_executable",
     "get_python_version", "find_posix_python", "find_windows_python",
     "find_python_script", "get_environment_variable"}

\* every cache empty; calls / ran: the memoized functions the last call of
\* the host entered / whose body it executed
NoCaches == [create_environment |-> EmptyCache, which |-> EmptyCache,
             find_python |-> EmptyCache, get_python_paths |-> EmptyCache,
             find_executable |-> EmptyCache, get_python_version |-> EmptyCache,
             find_posix_python |-> EmptyCache, find_windows_python |-> EmptyCache,
             find_python_script |-> EmptyCache, get_environment_variable |-> EmptyCache,
             calls |-> {}, ran |-> {}]

NoOp == [op |-> "none", exc |-> "", probe |-> Probe("none", <<>>),
         path |-> NoPath, env |-> Env(NoPath, NoKey, NoKey, NoKey),
         extra |-> NoExtra, handle |-> FALSE,
         name |-> <<>>, version |-> NoVersion, script |-> NoScript, module |-> FALSE,
         banner |-> <<>>, file |-> NonePath, result |-> NoCandidate,
         calls |-> {}, ran |-> {}]

\* the caches as a call of the host finds them
Begin(c) == [c EXCEPT !.calls = {}, !.ran = {}]
\* the probes that can make a difference on this host
NoProbe == Probe("none", <<>>)
ProbesHere == IF environ.SHELL # NoKey THEN Probes ELSE {NoProbe}
\* the probe and the banner a call consumed, if it ran the shell / python -V
ProbeSeen(c, probe) == IF "create_environment" \in c.ran THEN probe ELSE NoProbe
BannerSeen(c, banner) == IF "get_python_version" \in c.ran THEN banner ELSE <<>>

(***************************************************************************)
(* SpecVer: the pure version functions applied to bounded inputs           *)
(***************************************************************************)
RECURSIVE StringsUpTo(_)
StringsUpTo(n) ==
    IF n = 0 THEN {<<>>}
    ELSE LET S == StringsUpTo(n - 1)
         IN  S \cup {Append(s, c) : s \in {t \in S : Len(t) = n - 1}, c \in VerAlphabet}

VerStrings == StringsUpTo(MaxVerLen)
VerNums == {None} \cup (0 .. MaxVerNum)
VerDicts == {Version(ma, mi) : ma \in VerNums, mi \in VerNums}

NoResult == [fn |-> "none", version |-> Version(None, None), ok |-> FALSE]
\* combine_output not called
NoOut == [out |-> <<NoBytes, NoBytes>>, sep |-> <<>>, res |-> <<>>, applied |-> FALSE]

InitVer ==
    /\ platform = "linux" /\ environ = Env(<<"/a", "/b">>, NoKey, NoKey, NoKey)
    /\ pandoc = NoKey /\ cache = NoCaches /\ lastOp = NoOp
    /\ hostVersion = Version(3, 3) /\ fs = {} /\ nops = 0
    /\ IdleTmp
    /\ vres = NoResult /\ vout = NoOut
    /\ \/ vstr \in VerStrings /\ vavail = Version(None, None) /\ vreq = Version(None, None)
       \/ vstr = <<>> /\ vavail \in VerDicts /\ vreq \in VerDicts

ApplyExtract ==
    /\ vres' = [fn |-> "extract", version |-> extract_major_minor_version(vstr), ok |-> FALSE]
    /\ UNCHANGED <<vstr, vavail, vreq, vout, hostVars, cache, lastOp, fs, nops>>

ApplyFulfills ==
    /\ vres' = [fn |-> "fulfills", version |-> Version(None, None),
                ok |-> version_fulfills_request(vavail, vreq)]
    /\ UNCHANGED <<vstr, vavail, vreq, vout, hostVars, cache, lastOp, fs, nops>>

NextVer == ApplyExtract \/ ApplyFulfills

(***************************************************************************)
(* SpecEnv: the host builds environments and spawns children               *)
(***************************************************************************)
HostVersions == {Version(3, 3), Version(3, 8)}

InitHost ==
    /\ hostVersion \in HostVersions
    /\ platform \in Platforms
    /\ environ \in {Env(p, sh, NoKey, NoKey) : p \in AmbientPaths, sh \in Shells}
    /\ pandoc \in PandocSettings

InitEnv ==
    /\ InitHost
    /\ cache = NoCaches
    /\ lastOp = NoOp
    /\ fs = {} /\ nops = 0
    /\ IdleTmp
    /\ vstr = <<>> /\ vavail = Version(None, None) /\ vreq = Version(None, None)
    /\ vres = NoResult /\ vout = NoOut

\* the host calls get_shell_path(os.environ)
GetShellPath ==
    \E probe \in ProbesHere :
        \E r \in {get_shell_path(environ, probe)} :
            /\ lastOp' = [NoOp EXCEPT !.op = "get_shell_path", !.exc = r.exc,
                                      !.probe = probe, !.path = r.val]
            /\ UNCHANGED <<hostVars, cache, verVars, fs, nops>>

\* the host calls create_environment()
CreateEnvironmentCall ==
    \E probe \in ProbesHere :
        \E r \in {create_environment(Begin(cache), probe)} :
            /\ cache' = r.c
            /\ lastOp' = [NoOp EXCEPT !.op = "create_environment", !.exc = r.exc,
                                      !.probe = probe, !.env = r.val,
                                      !.calls = r.c.calls, !.ran = r.c.ran]
            /\ UNCHANGED <<hostVars, verVars, fs>>

CreateEnvironment == CreateEnvironmentCall /\ UNCHANGED nops

\* the host calls communicate(cmd, code, env=extra_env)
Communicate ==
    \E probe \in ProbesHere, extra_env \in ExtraEnvs, spawns \in BOOLEAN :
        \E r \in {popen(Begin(cache), extra_env, probe, spawns)} :
            /\ cache' = r.c
            /\ lastOp' = [NoOp EXCEPT !.op = "communicate", !.exc = r.exc,
                                      !.probe = probe, !.env = r.env,
                                      !.extra = extra_env, !.handle = r.handle]
            /\ UNCHANGED <<hostVars, verVars, fs, nops>>

\* the host calls clear_caches()
ClearCaches ==
    /\ cache' = clear_caches(Begin(cache))
    /\ lastOp' = [NoOp EXCEPT !.op = "clear_caches"]
    /\ UNCHANGED <<hostVars, verVars, fs, nops>>

NextEnv == GetShellPath \/ CreateEnvironment \/ Communicate \/ ClearCaches


(***************************************************************************)
(* SpecPy: the host resolves executables and interpreters on a file system *)
(* drawn at the start                                                      *)
(***************************************************************************)
Python == PythonName(<<>>)
ExecNames == {Python, <<"pep8">>}
Requests == {NoVersion, <<"2", ".", "7">>, <<"3", ".", "8">>}
Scripts == {NoScript, <<"pep8">>}
\* the shell probes drawn while resolving: not spawned, or a PATH printed
ProbesPy == IF /\ OsName = "posix" /\ environ.SHELL # NoKey
               /\ ~Cached(cache.create_environment, NoArgs)
            THEN {Probe("nospawn", <<>>), Probe("out", <<Noise, <<"/b", "/a">>, <<"">>>>)}
            ELSE {NoProbe}
Banners == {<<>>, <<"Python", <<"2", ".", "7", ".", "1">>>>, <<"Python", <<"3", ".", "8">>>>,
            <<"Python", <<"x">>>>}

\* the files that may come and go on this platform
FsUniverse ==
    IF platform \in {"osx", "linux"}
    THEN {Join("/a", Python), Join("/b", PythonName(<<"3">>)), Join("/b", <<"pep8">>)}
    ELSE {Join("/a", Python \o <<".exe">>), WinPythonPath(<<"2", "7">>),
          Path(<<"\\Python", "2", "7", "Scripts">>, <<"pep8", "-script.py">>)}

InitPy ==
    /\ hostVersion \in HostVersions
    /\ platform \in {"linux", "windows"}
    /\ environ \in {Env(<<"/a", "/b">>, sh, NoKey, NoKey) :
                        sh \in IF platform = "linux" THEN {NoKey, "/bin/bash"} ELSE {NoKey}}
    /\ pandoc = NoKey
    /\ cache = NoCaches
    /\ lastOp = NoOp
    /\ fs \in SUBSET FsUniverse
    /\ nops = 0
    /\ IdleTmp
    /\ vstr = <<>> /\ vavail = Version(None, None) /\ vreq = Version(None, None)
    /\ vres = NoResult /\ vout = NoOut

Step(max) == nops < max /\ nops' = nops + 1

\* the host calls find_executable(name)
FindExecutableOf(names, max) ==
    \E name \in names, probe \in ProbesPy :
        \E r \in {find_executable(Begin(cache), name, World(fs, probe, <<>>))} :
            /\ Step(max)
            /\ cache' = r.c
            /\ lastOp' = [NoOp EXCEPT !.op = "find_executable", !.exc = r.exc,
                                      !.probe = ProbeSeen(r.c, probe), !.name = name,
                                      !.file = r.val,
                                      !.calls = r.c.calls, !.ran = r.c.ran]
            /\ UNCHANGED <<hostVars, fs, verVars>>

\* the host calls find_python(version, script, module)
FindPythonOf(versions, scripts, banners, max) ==
    \E version \in versions, script \in scripts, module \in BOOLEAN,
       probe \in ProbesPy, banner \in banners :
        \E r \in {find_python(Begin(cache), version, script, module,
                             World(fs, probe, banner))} :
            /\ Step(max)
            /\ cache' = r.c
            /\ lastOp' = [NoOp EXCEPT !.op = "find_python", !.exc = r.exc,
                                      !.probe = ProbeSeen(r.c, probe),
                                      !.banner = BannerSeen(r.c, banner),
                                      !.version = version, !.script = script,
                                      !.module = module, !.result = r.val,
                                      !.calls = r.c.calls, !.ran = r.c.ran]
            /\ UNCHANGED <<hostVars, fs, verVars>>

\* the host calls which(cmd, module)
WhichOf(cmds, banners, max) ==
    \E cmd \in cmds, module \in BOOLEAN, probe \in ProbesPy, banner \in banners :
        \E r \in {which(Begin(cache), cmd, module, World(fs, probe, banner))} :
            /\ Step(max)
            /\ cache' = r.c
            /\ lastOp' = [NoOp EXCEPT !.op = "which", !.exc = r.exc,
                                      !.probe = ProbeSeen(r.c, probe),
                                      !.banner = BannerSeen(r.c, banner),
                                      !.name = cmd, !.module = module,
                                      !.file = r.val.path,
                                      !.calls = r.c.calls, !.ran = r.c.ran]
            /\ UNCHANGED <<hostVars, fs, verVars>>

\* the host calls get_python_paths()
GetPythonPathsOf(banners, max) ==
    \E probe \in ProbesPy, banner \in banners :
        \E r \in {get_python_paths(Begin(cache), World(fs, probe, banner))} :
            /\ Step(max)
            /\ cache' = r.c
            /\ lastOp' = [NoOp EXCEPT !.op = "get_python_paths", !.exc = r.exc,
                                      !.probe = ProbeSeen(r.c, probe),
                                      !.banner = BannerSeen(r.c, banner),
                                      !.calls = r.c.calls, !.ran = r.c.ran]
            /\ UNCHANGED <<hostVars, fs, verVars>>

\* the host calls get_environment_variable(name)
GetEnvironmentVariableOf(max) ==
    \E probe \in ProbesHere :
        \E r \in {get_environment_variable(Begin(cache), "FOO", World(fs, probe, <<>>))} :
            /\ Step(max)
            /\ cache' = r.c
            /\ lastOp' = [NoOp EXCEPT !.op = "get_environment_variable", !.exc = r.exc,
                                      !.calls = r.c.calls, !.ran = r.c.ran]
            /\ UNCHANGED <<hostVars, fs, verVars>>

\* the host calls clear_caches()
ClearCachesOf(max) ==
    /\ Step(max)
    /\ cache' = clear_caches(Begin(cache))
    /\ lastOp' = [NoOp EXCEPT !.op = "clear_caches"]
    /\ UNCHANGED <<hostVars, fs, verVars>>

\* a file is installed or removed behind the program's back
FsChangeOf(max) ==
    \E f \in FsUniverse :
        /\ Step(max)
        /\ fs' = IF f \in fs THEN fs \ {f} ELSE fs \cup {f}
        /\ lastOp' = [NoOp EXCEPT !.op = "fs_change", !.file = f]
        /\ UNCHANGED <<hostVars, cache, verVars>>

FindExecutable == FindExecutableOf(ExecNames, MaxOps)
FindPython == FindPythonOf(Requests, Scripts, Banners, MaxOps)
NextPy == FindExecutable \/ FindPython

(***************************************************************************)
(* SpecPath: the host looks executables up on a PATH whose directories     *)
(* hold files of the same name, with and without extension                 *)
(***************************************************************************)
PathNames == {<<"foo">>, <<"foo", ".cmd">>}
PathUniverse == {Join(d, n) : d \in {"/a", "/b"},
                              n \in {<<"foo">>, <<"foo", ".exe">>, <<"foo", ".cmd">>}}

InitPath ==
    /\ hostVersion = Version(3, 3)
    /\ platform \in {"linux", "windows"}
    /\ environ \in {Env(<<"/a", "/b">>, sh, NoKey, NoKey) :
                        sh \in IF platform = "linux" THEN {NoKey, "/bin/bash"} ELSE {NoKey}}
    /\ pandoc = NoKey
    /\ cache = NoCaches
    /\ lastOp = NoOp
    /\ fs \in SUBSET PathUniverse
    /\ nops = 0
    /\ IdleTmp
    /\ vstr = <<>> /\ vavail = Version(None, None) /\ vreq = Version(None, None)
    /\ vres = NoResult /\ vout = NoOut

PathFindExecutable == FindExecutableOf(PathNames, MaxPathOps)
NextPath == PathFindExecutable

(***************************************************************************)
(* SpecPosix: interpreters installed under versioned and unversioned names *)
(* on a POSIX host                                                         *)
(***************************************************************************)
PosixVersions == {<<"3", ".", "8">>, <<"2", ".", "7">>}
PosixUniverse == {Join("/a", Python), Join("/a", PythonName(<<"3">>)),
                  Join("/b", PythonName(<<"3", ".", "8">>))}
PosixBanners == {<<>>, <<"Python", <<"2", ".", "7", ".", "1">>>>, <<"Python", <<"3", ".", "8">>>>}

InitPosix ==
    /\ hostVersion \in HostVersions
    /\ platform = "linux"
    /\ environ \in {Env(<<"/a", "/b">>, sh, NoKey, NoKey) : sh \in {NoKey, "/bin/bash"}}
    /\ pandoc = NoKey
    /\ cache = NoCaches
    /\ lastOp = NoOp
    /\ fs \in SUBSET PosixUniverse
    /\ nops = 0
    /\ IdleTmp
    /\ vstr = <<>> /\ vavail = Version(None, None) /\ vreq = Version(None, None)
    /\ vres = NoResult /\ vout = NoOut

\* the host calls find_posix_python(version)
FindPosixPythonOf(versions, max) ==
    \E version \in versions, probe \in ProbesPy :
        \E r \in {find_posix_python(Begin(cache), version, World(fs, probe, <<>>))} :
            /\ Step(max)
            /\ cache' = r.c
            /\ lastOp' = [NoOp EXCEPT !.op = "find_posix_python", !.exc = r.exc,
                                      !.probe = ProbeSeen(r.c, probe),
                                      !.version = version, !.file = r.val,
                                      !.calls = r.c.calls, !.ran = r.c.ran]
            /\ UNCHANGED <<hostVars, fs, verVars>>

PosixFindPosixPython == FindPosixPythonOf(PosixVersions \cup {<<>>}, MaxPosixOps)
PosixFindPython == FindPythonOf(PosixVersions, {NoScript}, PosixBanners, MaxPosixOps)
NextPosix == PosixFindPosixPython \/ PosixFindPython

(***************************************************************************)
(* SpecCache: the host calls every memoized function, clears the caches    *)
(* and calls again, while the file system changes                          *)
(***************************************************************************)
CacheNames == {Python, <<"pep8">>}
CacheRequests == {<<"3", ".", "8">>}
CacheScripts == {NoScript}
CacheCmds == {<<"pep8">>, <<"pep8", "@python", "3", ".", "8">>}
CacheBanners == {<<"Python", <<"3", ".", "8">>>>}

InitCache ==
    /\ hostVersion = Version(3, 3)
    /\ platform \in {"linux", "windows"}
    /\ environ = Env(<<"/a", "/b">>, NoKey, NoKey, NoKey)
    /\ pandoc = NoKey
    /\ cache = NoCaches
    /\ lastOp = NoOp
    /\ fs \in {{}, FsUniverse}
    /\ nops = 0
    /\ IdleTmp
    /\ vstr = <<>> /\ vavail = Version(None, None) /\ vreq = Version(None, None)
    /\ vres = NoResult /\ vout = NoOut

CachedFindExecutable == FindExecutableOf(CacheNames, MaxCacheOps)
CachedFindPython == FindPythonOf(CacheRequests, CacheScripts, CacheBanners, MaxCacheOps)
CachedWhich == WhichOf(CacheCmds, CacheBanners, MaxCacheOps)
CachedGetPythonPaths == GetPythonPathsOf(CacheBanners, MaxCacheOps)
CachedGetEnvironmentVariable == GetEnvironmentVariableOf(MaxCacheOps)
CachedCreateEnvironment == Step(MaxCacheOps) /\ CreateEnvironmentCall
CachedClearCaches == ClearCachesOf(MaxCacheOps)
CachedFsChange == FsChangeOf(MaxCacheOps)

NextCache == CachedFindExecutable \/ CachedFindPython \/ CachedWhich
             \/ CachedGetPythonPaths \/ CachedGetEnvironmentVariable
             \/ CachedCreateEnvironment \/ CachedClearCaches \/ CachedFsChange

(***************************************************************************)
(* SpecMemo: threads of the host call memoized functions at the same time. *)
(* A call looks its key up in the cache; on a miss it runs the body, calls *)
(* made by the body included, and then stores the result under the key.    *)
(* Another thread can run between the lookup and the body.                 *)
(***************************************************************************)
MemoFunctions == {"create_environment", "find_executable", "find_python"}
MemoKeys(fn) ==
    CASE fn = "create_environment" -> {NoArgs}
      [] fn = "find_executable" -> {Python, <<"pep8">>}
      [] fn = "find_python" -> {<<<<"3", ".", "8">>, NoScript, FALSE>>}
\* what this host's login shell and its python -V print, every time
MemoWorld ==
    World(fs, IF environ.SHELL # NoKey THEN Probe("out", <<Noise, <<"/b", "/a">>, <<"">>>>)
              ELSE NoProbe,
          <<"Python", <<"3", ".", "8">>>>)
\* the cache of fn without an entry for key
Forget(c, fn, key) ==
    [c EXCEPT ![fn] = [k \in DOMAIN c[fn] \ {key} |-> c[fn][k]]]
\* the wrapped function called with the key
MemoBody(c, fn, key) ==
    CASE fn = "create_environment" ->
            (LET r == create_environment(c, MemoWorld.probe)
             IN  [exc |-> r.exc, c |-> r.c,
                  val |-> [IdleMemo EXCEPT !.env = r.val]])
      [] fn = "find_executable" ->
            (LET r == find_executable(c, key, MemoWorld)
             IN  [exc |-> r.exc, c |-> r.c,
                  val |-> [IdleMemo EXCEPT !.file = r.val]])
      [] fn = "find_python" ->
            (LET r == find_python(c, key[1], key[2], key[3], MemoWorld)
             IN  [exc |-> r.exc, c |-> r.c,
                  val |-> [IdleMemo EXCEPT !.result = r.val]])

InitMemo ==
    /\ hostVersion = Version(3, 3)
    /\ platform \in {"linux", "windows"}
    /\ environ \in {Env(<<"/a", "/b">>, sh, NoKey, NoKey) :
                        sh \in IF platform = "linux" THEN {NoKey, "/bin/bash"} ELSE {NoKey}}
    /\ pandoc \in PandocSettings
    /\ cache = NoCaches
    /\ lastOp = NoOp
    /\ fs \in SUBSET FsUniverse
    /\ nops = 0
    /\ IdleTmp
    /\ vstr = <<>> /\ vavail = Version(None, None) /\ vreq = Version(None, None)
    /\ vres = NoResult /\ vout = NoOut

MemoFrame == UNCHANGED <<platform, environ, pandoc, hostVersion, lastOp, fs,
                         tcall, tdirs, tfiles, cwd, nextTmp, verVars>>

\* the lookup of the lru_cache wrapper: a hit returns the stored result
MemoLookup(t) ==
    \E fn \in MemoFunctions :
        \E key \in MemoKeys(fn) :
            /\ mcall[t].pc \in {"idle", "done"}
            /\ Step(MaxMemoOps)
            /\ mcall' = [mcall EXCEPT ![t] =
                  IF Cached(cache[fn], key)
                  THEN [IdleMemo EXCEPT !.fn = fn, !.key = key, !.pc = "done",
                            !.env = IF fn = "create_environment" THEN cache[fn][key] ELSE @,
                            !.file = IF fn = "find_executable" THEN cache[fn][key] ELSE @,
                            !.result = IF fn = "find_python" THEN cache[fn][key] ELSE @]
                  ELSE [IdleMemo EXCEPT !.fn = fn, !.key = key, !.pc = "compute"]]
            /\ UNCHANGED cache
            /\ MemoFrame

\* after a miss: the function runs and the wrapper stores what it returned
MemoCompute(t) ==
    /\ mcall[t].pc = "compute"
    /\ \E r \in {MemoBody(Begin(Forget(cache, mcall[t].fn, mcall[t].key)),
                           mcall[t].fn, mcall[t].key)} :
          /\ cache' = r.c
          /\ mcall' = [mcall EXCEPT ![t] =
                [r.val EXCEPT !.fn = mcall[t].fn, !.key = mcall[t].key, !.pc = "done",
                              !.exc = r.exc, !.computed = TRUE]]
    /\ UNCHANGED nops
    /\ MemoFrame

NextMemo == \E t \in Threads : MemoLookup(t) \/ MemoCompute(t)

(***************************************************************************)
(* SpecOut: combine_output applied to what a child wrote                   *)
(***************************************************************************)
RECURSIVE BytesUpTo(_)
BytesUpTo(n) ==
    IF n = 0 THEN {<<>>}
    ELSE LET S == BytesUpTo(n - 1)
         IN  S \cup {Append(b, c) : b \in {t \in S : Len(t) = n - 1}, c \in DOMAIN Utf8}
\* what the child wrote to stdout and to stderr, and the separators passed
StdoutBytes == {NoBytes} \cup BytesUpTo(MaxOutLen)
StderrBytes == {NoBytes, <<>>, <<120>>, <<109>>}
Separators == {<<>>, <<"\n">>}

InitOut ==
    /\ platform = "linux" /\ environ = Env(<<"/a", "/b">>, NoKey, NoKey, NoKey)
    /\ pandoc = NoKey /\ cache = NoCaches /\ lastOp = NoOp
    /\ hostVersion = Version(3, 3) /\ fs = {} /\ nops = 0
    /\ IdleTmp
    /\ vstr = <<>> /\ vavail = Version(None, None) /\ vreq = Version(None, None)
    /\ vres = NoResult
    /\ vout \in {[NoOut EXCEPT !.out = <<o, e>>, !.sep = sep] :
                    o \in StdoutBytes, e \in StderrBytes, sep \in Separators}

ApplyCombine ==
    /\ ~vout.applied
    /\ vout' = [vout EXCEPT !.res = combine_output(vout.out, vout.sep), !.applied = TRUE]
    /\ UNCHANGED <<vstr, vavail, vreq, vres, hostVars, cache, lastOp, fs, nops>>

NextOut == ApplyCombine

(***************************************************************************)
(* SpecTmp: threads of the host run tmpfile and tmpdir, one statement      *)
(* group at a time                                                         *)
(***************************************************************************)
InitTmp ==
    /\ hostVersion = Version(3, 3)
    /\ platform \in Platforms
    /\ environ = Env(<<"/a", "/b">>, NoKey, NoKey, NoKey)
    /\ pandoc = NoKey
    /\ cache = NoCaches
    /\ lastOp = NoOp
    /\ fs = {} /\ nops = 0
    /\ IdleTmp
    /\ vstr = <<>> /\ vavail = Version(None, None) /\ vreq = Version(None, None)
    /\ vres = NoResult /\ vout = NoOut

TmpFrame ==
    UNCHANGED <<platform, environ, pandoc, hostVersion, lastOp, fs, nops, mcall, verVars>>
Idle(t) == tcall[t].pc \in {"idle", "done"} /\ nextTmp <= MaxTmpCalls

\* tmpfile, lines 631-646: the temporary file is created, written and closed,
\* and its name put into the command
TmpfileStartOf(t, cmds) ==
    \E cmd \in cmds, extra_env \in {NoExtra, [PATH |-> NoPath, FOO |-> "1"]},
       created \in BOOLEAN, written \in BOOLEAN :
        /\ Idle(t)
        /\ tcall' = [tcall EXCEPT ![t] =
              [IdleCall EXCEPT !.fn = "tmpfile", !.extra = extra_env, !.given = cmd,
                  !.tmp = IF created THEN nextTmp ELSE Home,
                  !.cmd = IF created /\ written THEN WithFile(cmd, nextTmp) ELSE cmd,
                  !.exc = IF created /\ written THEN "" ELSE "OSError",
                  !.pc = IF ~created THEN "done"
                         ELSE IF ~written THEN "finally" ELSE "popen"]]
        /\ tfiles' = IF created
                     THEN Store(tfiles, <<nextTmp, File("", "")>>,
                                IF written THEN <<"live">> ELSE <<"partial">>)
                     ELSE tfiles
        /\ nextTmp' = nextTmp + 1
        /\ UNCHANGED <<tdirs, cwd, cache>>
        /\ TmpFrame

\* tmpdir, lines 672-674: the temporary directory is made
TmpdirStartOf(t, cmds, lists) ==
    \E cmd \in cmds, files \in lists, made \in BOOLEAN,
       extra_env \in {NoExtra, [PATH |-> NoPath, FOO |-> "1"]} :
        /\ Idle(t)
        /\ tcall' = [tcall EXCEPT ![t] =
              [IdleCall EXCEPT !.fn = "tmpdir", !.extra = extra_env, !.given = cmd,
                  !.cmd = cmd,
                  !.files = files, !.filename = File("src", "a.py").base, !.i = 1,
                  !.tmp = IF made THEN nextTmp ELSE Home,
                  !.exc = IF made THEN "" ELSE "OSError",
                  !.pc = IF ~made THEN "done"
                         ELSE IF files = <<>> THEN "chdir" ELSE "mirror"]]
        /\ tdirs' = IF made THEN tdirs \cup {nextTmp} ELSE tdirs
        /\ nextTmp' = nextTmp + 1
        /\ UNCHANGED <<tfiles, cwd, cache>>
        /\ TmpFrame

\* tmpdir, lines 677-695: one turn of the loop over files
TmpdirMirror(t) ==
    LET call == tcall[t]
        f == call.files[call.i]
        target == <<call.tmp, f>>
        live == f.base = call.filename
        last == call.i = Len(call.files)
    IN  /\ call.pc = "mirror"
        /\ IF live \/ SourceExists(f)
           THEN /\ tfiles' = Store(tfiles, target,
                                   IF live THEN <<"live">> ELSE SourceContent(f))
                /\ tcall' = [tcall EXCEPT ![t].i = @ + 1,
                                          ![t].pc = IF last THEN "chdir" ELSE "mirror"]
           ELSE /\ tfiles' = tfiles
                /\ tcall' = [tcall EXCEPT ![t].exc = "FileNotFoundError",
                                          ![t].pc = "finally"]
        /\ UNCHANGED <<tdirs, cwd, nextTmp, cache>>
        /\ TmpFrame

\* communicate, line 609: nothing precedes popen
CommunicateStart(t) ==
    \E extra_env \in {NoExtra, [PATH |-> NoPath, FOO |-> "1"]} :
        /\ Idle(t)
        /\ tcall' = [tcall EXCEPT ![t] =
              [IdleCall EXCEPT !.fn = "communicate", !.extra = extra_env,
                               !.cmd = <<"tool">>, !.pc = "popen"]]
        /\ nextTmp' = nextTmp + 1
        /\ UNCHANGED <<tdirs, tfiles, cwd, cache>>
        /\ TmpFrame

\* tmpdir, line 697: os.chdir(d)
TmpdirChdir(t) ==
    /\ tcall[t].pc = "chdir"
    /\ cwd' = tcall[t].tmp
    /\ tcall' = [tcall EXCEPT ![t].pc = "popen"]
    /\ UNCHANGED <<tdirs, tfiles, nextTmp, cache>>
    /\ TmpFrame

\* communicate line 609, tmpfile line 648, tmpdir line 698:
\* popen(cmd, extra_env=env)
TmpPopen(t) ==
    \E spawns \in BOOLEAN :
        \E r \in {popen(Begin(cache), tcall[t].extra, NoProbe, spawns)} :
            /\ tcall[t].pc = "popen"
            /\ cache' = r.c
            /\ tcall' = [tcall EXCEPT ![t].handle = r.handle,
                                      ![t].exc = r.exc,
                                      ![t].spawnCwd = cwd,
                                      ![t].spawn = IF ~EnvCached(r.c) THEN "none"
                                                   ELSE IF spawns THEN "ok"
                                                   ELSE "failed",
                                      ![t].pc = IF r.handle THEN "communicate"
                                                ELSE IF tcall[t].fn = "communicate"
                                                THEN "done" ELSE "finally"]
            /\ UNCHANGED <<tdirs, tfiles, cwd, nextTmp>>
            /\ TmpFrame

\* the filter of tmpdir keeping only the lines that name the file exactly
RECURSIVE FilterLines_exact(_, _)
FilterLines_exact(lines, filename) ==
    IF lines = <<>> THEN <<>>
    ELSE IF Head(lines).head = <<filename>>
         THEN <<Head(lines)>> \o FilterLines_exact(Tail(lines), filename)
         ELSE FilterLines_exact(Tail(lines), filename)

\* the filter of tmpdir, lines 707-709
RECURSIVE FilterLines(_, _)
FilterLines(lines, filename) ==
    IF lines = <<>> THEN <<>>
    ELSE IF Contains(Head(lines).head, filename)
         THEN <<Head(lines)>> \o FilterLines(Tail(lines), filename)
         ELSE FilterLines(Tail(lines), filename)

\* communicate lines 612-614, tmpfile lines 651-652, tmpdir lines 701-709:
\* the tool runs to its end
TmpCommunicate(t) ==
    \E output \in Outputs :
        /\ tcall[t].pc = "communicate"
        /\ tcall' = [tcall EXCEPT
              ![t].out = IF tcall[t].fn = "tmpdir"
                         THEN FilterLines(output, tcall[t].filename) ELSE output,
              ![t].raw = output,
              ![t].pc = IF tcall[t].fn = "communicate" THEN "done" ELSE "finally"]
        /\ UNCHANGED <<tdirs, tfiles, cwd, nextTmp, cache>>
        /\ TmpFrame

\* shutil.rmtree(d, True): everything under d goes; d itself cannot be removed
\* on Windows while it is the working directory of the process, and the
\* error is ignored
RmtreeDirs(d) == IF platform = "windows" /\ cwd = d THEN tdirs ELSE tdirs \ {d}

\* tmpfile lines 655-657, tmpdir lines 712-715: the finally clause and return
TmpFinally(t) ==
    LET call == tcall[t]
    IN  /\ call.pc = "finally"
        /\ IF call.fn = "tmpfile"
           THEN /\ tfiles' = Without(tfiles, {<<call.tmp, File("", "")>>})
                /\ tdirs' = tdirs
           ELSE /\ tfiles' = Without(tfiles, Under(call.tmp))
                /\ tdirs' = RmtreeDirs(call.tmp)
        /\ tcall' = [tcall EXCEPT ![t].removals = @ + 1, ![t].pc = "done"]
        /\ UNCHANGED <<cwd, nextTmp, cache>>
        /\ TmpFrame

TmpfileStart(t) == TmpfileStartOf(t, TmpCmds)
TmpdirStart(t) == TmpdirStartOf(t, TmpCmds, FileLists)

NextTmp == \E t \in Threads :
              \/ CommunicateStart(t) \/ TmpfileStart(t) \/ TmpdirStart(t)
              \/ TmpdirMirror(t) \/ TmpdirChdir(t)
              \/ TmpPopen(t) \/ TmpCommunicate(t) \/ TmpFinally(t)

(***************************************************************************)
(* SpecSeq: one thread calls tmpfile and tmpdir, one call after the other, *)
(* with commands that hold no, one or two placeholders and with file lists *)
(* where the edited name occurs in no, one or two directories              *)
(***************************************************************************)
SeqCmds == {<<"tool">>, <<"tool", "@", "-x">>, <<"tool", "@", "-x", "@">>}
SeqFileLists == {<<>>, <<File("", "b.py"), File("", "a.py")>>, <<File("pkg", "c.py")>>,
                 <<File("", "a.py"), File("pkg", "a.py"), File("", "b.py")>>}
SeqTmpfileStart == TmpfileStartOf(1, SeqCmds)
SeqTmpdirStart == TmpdirStartOf(1, SeqCmds, SeqFileLists)
NextSeq == \/ SeqTmpfileStart \/ SeqTmpdirStart
           \/ TmpdirMirror(1) \/ TmpdirChdir(1)
           \/ TmpPopen(1) \/ TmpCommunicate(1) \/ TmpFinally(1)

vars == <<platform, environ, pandoc, hostVersion, cache, lastOp, fs, nops,
          tcall, tdirs, tfiles, cwd, nextTmp, mcall, vstr, vavail, vreq, vres, vout>>

SpecVer == InitVer /\ [][NextVer]_vars
SpecEnv == InitEnv /\ [][NextEnv]_vars
SpecPy == InitPy /\ [][NextPy]_vars
SpecCache == InitCache /\ [][NextCache]_vars
SpecTmp == InitTmp /\ [][NextTmp]_vars
SpecOut == InitOut /\ [][NextOut]_vars
SpecPath == InitPath /\ [][NextPath]_vars
SpecMemo == InitMemo /\ [][NextMemo]_vars
SpecPosix == InitPosix /\ [][NextPosix]_vars
SpecSeq == InitTmp /\ [][NextSeq]_vars

(***************************************************************************)
(* Properties of the version functions (checked under SpecVer)             *)
(***************************************************************************)
AllDigits(s, i, j) == \A k \in i .. j : IsDigit(s[k])
\* the string has the form "N"
IsN(s) == Len(s) >= 1 /\ AllDigits(s, 1, Len(s))
\* the string has the form "N.M"; d is the position of the dot
IsNMAt(s, d) == /\ 1 < d /\ d < Len(s) /\ s[d] = "."
                /\ AllDigits(s, 1, d - 1) /\ AllDigits(s, d + 1, Len(s))
IsNM(s) == \E d \in 1 .. Len(s) : IsNMAt(s, d)

\* C6: version_fulfills_request(available, requested) is true exactly when
\* requested.major is absent, or requested.major equals available.major and
\* either requested.minor is absent or available.minor is present and
\* >= requested.minor; an available version with absent major fulfils no
\* request that has a major.
C6_FulfillsExactly ==
    vres.fn = "fulfills" =>
        /\ vres.ok <=>
              \/ vreq.major = None
              \/ /\ vreq.major = vavail.major
                 /\ \/ vreq.minor = None
                    \/ vavail.minor # None /\ vavail.minor >= vreq.minor
        /\ (vavail.major = None /\ vreq.major # None) => ~vres.ok

\* a request {M, N} answered by an available {M, N}: the boundary of >=
C6_Witness ==
    /\ vres.fn = "fulfills" /\ vres.ok
    /\ vreq.major # None /\ vreq.minor # None
    /\ vavail.major = vreq.major /\ vavail.minor = vreq.minor

\* C7 as stated: "N" gives {N, absent}, "N.M" gives {N, M}, and every
\* malformed string (neither "N" nor "N.M") gives {absent, absent}.
C7_Original ==
    vres.fn = "extract" =>
        /\ IsN(vstr) => vres.version = Version(ToInt(vstr), None)
        /\ \A d \in 1 .. Len(vstr) : IsNMAt(vstr, d) =>
               vres.version = Version(ToInt(SubSeq(vstr, 1, d - 1)),
                                      ToInt(SubSeq(vstr, d + 1, Len(vstr))))
        /\ (~IsN(vstr) /\ ~IsNM(vstr)) => vres.version = Version(None, None)

\* n is the end of the run of digits that starts at position i of s
RunEnds(s, i, n) == /\ i <= n /\ n <= Len(s) /\ AllDigits(s, i, n)
                    /\ (n = Len(s) \/ ~IsDigit(s[n + 1]))

\* C7 amended: only the start of the string is parsed. A string that does
\* not begin with a digit gives {absent, absent}; a string whose leading run
\* of digits is N gives major N, with minor M when that run is directly
\* followed by a dot and a run of digits M, and minor absent otherwise,
\* whatever characters follow.
C7_LeadingRun ==
    vres.fn = "extract" =>
        /\ (vstr = <<>> \/ ~IsDigit(vstr[1])) => vres.version = Version(None, None)
        /\ \A n \in 1 .. Len(vstr) : RunEnds(vstr, 1, n) =>
              /\ vres.version.major = ToInt(SubSeq(vstr, 1, n))
              /\ \A m \in n + 2 .. Len(vstr) :
                    (vstr[n + 1] = "." /\ RunEnds(vstr, n + 2, m)) =>
                        vres.version.minor = ToInt(SubSeq(vstr, n + 2, m))
              /\ (n + 2 > Len(vstr) \/ vstr[n + 1] # "." \/ ~IsDigit(vstr[n + 2])) =>
                    vres.version.minor = None

\* a malformed string with a leading run of two digits was parsed
C7_Witness ==
    /\ vres.fn = "extract"
    /\ Len(vstr) = 3 /\ IsDigit(vstr[1]) /\ IsDigit(vstr[2]) /\ vstr[3] = "x"
    /\ vres.version = Version(ToInt(SubSeq(vstr, 1, 2)), None)

(***************************************************************************)
(* Properties of the environment resolver (checked under SpecEnv)          *)
(***************************************************************************)

\* C2: the cached process environment is never mutated after it is built:
\* while it stays cached no call changes it, and a child spawned without
\* extra_env is given no value that an earlier extra_env introduced (its
\* FOO is the ambient FOO, its PATH holds no entry of an extra_env PATH).
C2_Original ==
    [][/\ (EnvCached(cache) /\ EnvCached(cache')) => EnvValue(cache') = EnvValue(cache)
       /\ (lastOp'.op = "communicate" /\ lastOp'.exc = "" /\ lastOp'.extra = NoExtra) =>
             /\ lastOp'.env.FOO = environ.FOO
             /\ \A x \in ExtraEnvs : x.PATH # NoPath => lastOp'.env.PATH # x.PATH]_vars

ShellRecognized == environ.SHELL # NoKey /\ Basename(environ.SHELL) \in {"bash", "zsh", "fish"}
ShellUnrecognized == environ.SHELL # NoKey /\ ~ShellRecognized
\* the probe ran and timed out, printed nothing, or printed no marker
ProbeFailed(probe) == probe.kind = "timeout" \/ (probe.kind = "out" /\ Len(probe.segs) = 1)
NotAnEntry(d) == ~InSeq(d, environ.PATH)
FallbackPath == environ.PATH \o SelectSeq(CommonDirs, NotAnEntry)

\* C4: on a POSIX host with an ambient PATH, whenever the login-shell probe
\* fails (no marker, empty output, timeout) or the shell is unrecognized,
\* get_shell_path returns the ambient PATH followed by the common
\* directories that are not already entries of it, in order, each once.
C4_Original ==
    (/\ lastOp.op = "get_shell_path" /\ OsName = "posix" /\ environ.PATH # NoPath
     /\ \/ ShellRecognized /\ ProbeFailed(lastOp.probe)
        \/ ShellUnrecognized)
    => (lastOp.exc = "" /\ lastOp.path = FallbackPath)

\* C5: create_environment never raises, whatever the login-shell probe does
\* (not spawned, timed out, no marker) and with or without SHELL; it returns
\* an environment that has a PATH.
C5_Original ==
    (lastOp.op = "create_environment" /\ OsName = "posix" /\ environ.PATH # NoPath)
    => (lastOp.exc = "" /\ lastOp.env.PATH # NoPath)

\* the PATH create_environment starts from: what the login shell or the
\* guess gave on POSIX, the ambient PATH elsewhere
ResolvedPath ==
    IF OsName = "posix" THEN get_shell_path(environ, lastOp.probe).val ELSE environ.PATH

\* C18: the PATH of the environment built by create_environment is composed
\* in this order: the host-settings directories for the platform first (this
\* build configures none), then the resolved shell/ambient PATH, then the
\* configured pandoc_path last.
C18_Original ==
    (/\ lastOp.op = "create_environment" /\ lastOp.exc = ""
     /\ "create_environment" \in lastOp.ran /\ pandoc # NoKey)
    => lastOp.env.PATH = ResolvedPath \o <<pandoc>>

(***************************************************************************)
(* Properties of the caches (checked under SpecCache)                      *)
(***************************************************************************)
\* C3: clear_caches() clears the cache of every memoized function of the
\* module, so that the next call to each of the ten recomputes its result.
C3_Original ==
    lastOp.op = "clear_caches" => \A f \in CachedFunctions : DOMAIN cache[f] = {}

\* C8: find_executable called again with a name it has a cached result for
\* (no invalidation since) returns that same result without running the
\* file-system search, also when the cached result is not-found.
C8_CachedTwice ==
    [][\A name \in CacheNames :
          (/\ lastOp'.op = "find_executable" /\ lastOp'.name = name
           /\ Cached(cache.find_executable, name))
          => /\ lastOp'.exc = ""
             /\ lastOp'.file = cache.find_executable[name]
             /\ "find_executable" \notin lastOp'.ran
             /\ cache'.find_executable = cache.find_executable]_vars

\* the second call returned the cached not-found although the file has been
\* installed since and a search would now find it
C8_Witness ==
    /\ lastOp.op = "find_executable" /\ lastOp.exc = ""
    /\ "find_executable" \notin lastOp.ran
    /\ lastOp.file = NonePath
    /\ Cached(cache.create_environment, NoArgs)
    /\ SearchPath(World(fs, NoProbe, <<>>), cache.create_environment[NoArgs].PATH,
                  lastOp.name, 1) # NonePath

(***************************************************************************)
(* Properties of the interpreter resolver (checked under SpecPy)           *)
(***************************************************************************)
SearchFunctions == {"find_executable", "find_posix_python", "find_windows_python"}
Requested(version) ==
    IF version = NoVersion THEN Version(None, None) ELSE extract_major_minor_version(version)
\* a module is supplied and no version is requested or the host's satisfies it
HostServes(version, module) ==
    module /\ (version = NoVersion \/ version_fulfills_request(hostVersion, Requested(version)))

\* C9: find_python returns the builtin sentinel with the host's own
\* major/minor version, and makes no executable search and no version probe,
\* exactly when a module is supplied and either no version is requested or
\* the host's version satisfies the request; with a module and a request the
\* host does not satisfy it goes on to the file-system search.
C9_BuiltinExactly ==
    lastOp.op = "find_python" =>
        /\ HostServes(lastOp.version, lastOp.module) =>
              /\ lastOp.exc = ""
              /\ lastOp.result.path = Builtin
              /\ lastOp.result.major = hostVersion.major
              /\ lastOp.result.minor = hostVersion.minor
              /\ lastOp.calls \cap (SearchFunctions \cup {"get_python_version"}) = {}
        /\ ~HostServes(lastOp.version, lastOp.module) => lastOp.result.path # Builtin
        /\ (lastOp.module /\ ~HostServes(lastOp.version, lastOp.module)
            /\ "find_python" \in lastOp.ran) =>
              lastOp.calls \cap {"find_posix_python", "find_windows_python"} # {}

\* version 3.8 requested with a module on a host that runs 3.8: the builtin
C9_Witness ==
    /\ lastOp.op = "find_python" /\ lastOp.module
    /\ lastOp.version = <<"3", ".", "8">> /\ hostVersion = Version(3, 8)
    /\ lastOp.result.path = Builtin /\ lastOp.result.major = 3 /\ lastOp.result.minor = 8
    /\ lastOp.calls = {"find_python"}

\* the interpreter the file-system search of the last find_python returned
SearchCache == IF platform \in {"osx", "linux"} THEN cache.find_posix_python
               ELSE cache.find_windows_python
\* the last find_python searched the file system, found an interpreter and
\* probed a version that does not satisfy the request
FoundUnfit ==
    /\ lastOp.op = "find_python" /\ lastOp.exc = "" /\ "find_python" \in lastOp.ran
    /\ lastOp.version # NoVersion
    /\ ~HostServes(lastOp.version, lastOp.module)
    /\ Cached(SearchCache, lastOp.version)
    /\ SearchCache[lastOp.version] # NonePath
    /\ Cached(cache.get_python_version, SearchCache[lastOp.version])
    /\ ~version_fulfills_request(cache.get_python_version[SearchCache[lastOp.version]],
                                 Requested(lastOp.version))

\* C10: when find_python finds an interpreter on the file system whose
\* probed version does not satisfy the request, the returned candidate is
\* entirely absent: path, script path, major and minor are all absent.
C10_Original == FoundUnfit => lastOp.result = NoCandidate

\* the interpreter the file-system search of the last find_python found:
\* the default python without a version, the platform search with one
Located ==
    IF lastOp.op # "find_python" \/ HostServes(lastOp.version, lastOp.module) THEN NonePath
    ELSE IF lastOp.version = NoVersion
         THEN IF Cached(cache.find_executable, Python)
              THEN cache.find_executable[Python] ELSE NonePath
    ELSE IF Cached(SearchCache, lastOp.version) THEN SearchCache[lastOp.version]
    ELSE NonePath
\* python -V of that interpreter was asked and its answer satisfies the request
LocatedFits ==
    /\ Located # NonePath
    /\ Cached(cache.get_python_version, Located)
    /\ version_fulfills_request(cache.get_python_version[Located], Requested(lastOp.version))
\* the script is where the platform looks for it: a file of that name in a
\* directory of the resolved PATH on POSIX, <python dir>/Scripts/<script>-script.py
\* on Windows
ScriptLocatable(script) ==
    IF platform \in {"osx", "linux"}
    THEN /\ EnvCached(cache)
         /\ \E i \in 1 .. Len(EnvValue(cache).PATH) :
                Join(EnvValue(cache).PATH[i], script) \in fs
    ELSE Path(Located.dir \o <<"Scripts">>, script \o <<"-script.py">>) \in fs

\* C11: when find_python is called with a script name and finds an interpreter
\* on the file system that satisfies the request, but the script cannot be
\* located, the resolution fails: the returned interpreter path and script
\* path are both absent.
C11_ScriptMissing ==
    (/\ lastOp.op = "find_python" /\ lastOp.exc = "" /\ lastOp.script # NoScript
     /\ LocatedFits /\ ~ScriptLocatable(lastOp.script))
    => (lastOp.result.path = NonePath /\ lastOp.result.script = NonePath)

\* an interpreter of a known version was found and the script was not
C11_Witness ==
    /\ lastOp.op = "find_python" /\ lastOp.exc = "" /\ lastOp.script # NoScript
    /\ "find_python_script" \in lastOp.ran
    /\ LocatedFits /\ ~ScriptLocatable(lastOp.script)
    /\ lastOp.result.path = NonePath /\ lastOp.result.major # None

\* python -V could not be spawned, or what follows 'Python ' starts with no digit
BannerFails(banner) ==
    Len(banner) < 2 \/ banner[2] = <<>> \/ ~IsDigit(banner[2][1])

\* C12: when the version query of a located interpreter fails (not spawned,
\* unparseable output), get_python_version returns {absent, absent} without
\* raising, and find_python returns an absent path for every request whose
\* version has a major component.
C12_UnknownVersion ==
    (/\ lastOp.op = "find_python" /\ "get_python_version" \in lastOp.ran
     /\ BannerFails(lastOp.banner))
    => /\ lastOp.exc = ""
       /\ Located # NonePath /\ Cached(cache.get_python_version, Located)
       /\ cache.get_python_version[Located] = Version(None, None)
       /\ lastOp.result.major = None /\ lastOp.result.minor = None
       /\ Requested(lastOp.version).major # None => lastOp.result.path = NonePath

\* python 3.8 was requested, an interpreter found, and its -V printed no version
C12_Witness ==
    /\ lastOp.op = "find_python" /\ "get_python_version" \in lastOp.ran
    /\ Len(lastOp.banner) = 2 /\ BannerFails(lastOp.banner)
    /\ lastOp.version = <<"3", ".", "8">>
    /\ Located # NonePath /\ lastOp.result.path = NonePath

(***************************************************************************)
(* Properties of the temporary-file helpers (checked under SpecTmp)        *)
(***************************************************************************)
\* C1: after any call to tmpfile or tmpdir, on every exit path (the tool ran,
\* the spawn failed, an exception was raised while writing or copying), the
\* temporary file or directory the call created no longer exists, and the
\* temporary file was removed exactly once.
C1_Original ==
    \A t \in Threads :
        (tcall[t].pc = "done" /\ tcall[t].tmp # Home) =>
            /\ tcall[t].tmp \notin tdirs
            /\ Under(tcall[t].tmp) = {}
            /\ tcall[t].fn = "tmpfile" => tcall[t].removals = 1

\* the tool of a call was not spawned
SpawnFailed(t) == tcall[t].spawn = "failed"

\* C13: a failure to spawn the child process is never propagated: popen
\* returns an absent handle instead of raising, and communicate, tmpfile and
\* tmpdir return the empty string when the handle is absent.
C13_SpawnSwallowed ==
    \A t \in Threads :
        SpawnFailed(t) =>
            /\ ~tcall[t].handle /\ tcall[t].exc = ""
            /\ tcall[t].pc \in {"finally", "done"}
            /\ tcall[t].out = <<>>

\* each of the three has returned '' after a spawn failure: tmpdir here,
\* with the directory mirrored before
C13_Witness ==
    \E t \in Threads :
        /\ SpawnFailed(t) /\ tcall[t].pc = "done" /\ tcall[t].fn = "tmpdir"
        /\ tcall[t].files # <<>> /\ tcall[t].out = <<>> /\ tcall[t].exc = ""

\* C14: tmpfile and tmpdir never propagate an exception to their caller:
\* whatever fails (creating or writing the payload, copying a listed file,
\* changing directory, removing the sandbox) the call returns a string.
C14_Original ==
    \A t \in Threads :
        (tcall[t].pc = "done" /\ tcall[t].fn \in {"tmpfile", "tmpdir"}) => tcall[t].exc = ""

\* C15: when tmpdir calls run concurrently in separate threads, each call
\* spawns its tool with the working directory of the process equal to that
\* call's own temporary directory, in every interleaving.
C15_Original ==
    \A t \in Threads :
        (tcall[t].fn = "tmpdir" /\ tcall[t].spawn # "none") =>
            tcall[t].spawnCwd = tcall[t].tmp

\* the positions of the lines of a tmpdir call's output whose part before
\* the first colon contains the base name of the target file
Kept(t) == {i \in 1 .. Len(tcall[t].raw) :
               \E j \in 1 .. Len(tcall[t].raw[i].head) :
                   tcall[t].raw[i].head[j] = tcall[t].filename}
\* the k-th of them
KeptAt(t, k) == CHOOSE i \in Kept(t) : Cardinality({j \in Kept(t) : j <= i}) = k

\* C20: tmpdir returns exactly those lines of the tool's combined output
\* whose portion before the first colon contains the target file's base
\* name, in their original order; every other line is dropped.
C20_FilteredLines ==
    \A t \in Threads :
        (tcall[t].fn = "tmpdir" /\ tcall[t].spawn = "ok"
         /\ tcall[t].pc \in {"finally", "done"}) =>
            /\ Len(tcall[t].out) = Cardinality(Kept(t))
            /\ \A k \in 1 .. Len(tcall[t].out) : tcall[t].out[k] = tcall[t].raw[KeptAt(t, k)]

\* a tool printed three lines; the two that name a.py in their head (as
\* part of a longer path or name) were returned in order, the other dropped
C20_Witness ==
    \E t \in Threads :
        /\ tcall[t].fn = "tmpdir" /\ tcall[t].pc = "done"
        /\ Len(tcall[t].raw) = 3 /\ Len(tcall[t].out) = 2
        /\ tcall[t].out[1] = tcall[t].raw[1] /\ tcall[t].out[2] = tcall[t].raw[3]

(***************************************************************************)
(* Properties of combine_output (checked under SpecOut)                    *)
(***************************************************************************)
\* C19: combine_output given only stdout bytes (stderr not captured) returns
\* exactly the decoded stdout text with the ANSI colour sequences removed and
\* no separator inserted, for every separator; given both streams and a
\* separator it returns stdout, then the separator, then stderr.
C19_Original ==
    vout.applied =>
        /\ (vout.out[1] # NoBytes /\ vout.out[2] = NoBytes) =>
              vout.res = StripAnsi(Decode(vout.out[1]), 1)
        /\ (vout.out[1] # NoBytes /\ vout.out[2] # NoBytes) =>
              vout.res = StripAnsi(Decode(vout.out[1]) \o vout.sep \o Decode(vout.out[2]), 1)

(***************************************************************************)
(* Properties of the PATH search (checked under SpecPath)                  *)
(***************************************************************************)
\* the directories of the resolved PATH, by position, that hold a file
Holding(name) ==
    {i \in 1 .. Len(EnvValue(cache).PATH) : Join(EnvValue(cache).PATH[i], name) \in fs}
Least(S) == CHOOSE i \in S : \A j \in S : i <= j
\* the file called name in the first directory that holds one
FirstHolding(name) ==
    IF Holding(name) = {} THEN NonePath
    ELSE Join(EnvValue(cache).PATH[Least(Holding(name))], name)

Extended(i, name) ==
    {k \in 1 .. Len(WinExtensions) :
        Join(EnvValue(cache).PATH[i], name \o WinExtensions[k]) \in fs}
HoldingExtended(name) == {i \in 1 .. Len(EnvValue(cache).PATH) : Extended(i, name) # {}}
FirstExtended(name) ==
    IF HoldingExtended(name) = {} THEN NonePath
    ELSE Join(EnvValue(cache).PATH[Least(HoldingExtended(name))],
              name \o WinExtensions[Least(Extended(Least(HoldingExtended(name)), name))])

Returned(t) == [exc |-> mcall[t].exc, env |-> mcall[t].env, file |-> mcall[t].file,
                result |-> mcall[t].result]
\* the value the cache holds for the key of the call of t
Held(t) == cache[mcall[t].fn][mcall[t].key]

C24_BuiltinScript ==
    (lastOp.op = "find_python" /\ lastOp.result.path = Builtin) =>
        /\ lastOp.exc = ""
        /\ lastOp.calls \cap {"find_python_script", "which"} = {}
        /\ lastOp.version = NoVersion => lastOp.result.script = Path(<<>>, lastOp.script)
        /\ lastOp.version # NoVersion => lastOp.result.script = NonePath

\* 3.8 and the script pep8 were requested with a module on a host that runs
\* 3.8 and has no pep8 installed: the builtin, with no script
C24_Witness ==
    /\ lastOp.op = "find_python" /\ lastOp.module /\ hostVersion = Version(3, 8)
    /\ lastOp.version = <<"3", ".", "8">> /\ lastOp.script = <<"pep8">>
    /\ \A f \in fs : f.name # <<"pep8">>
    /\ "find_python" \in lastOp.ran
    /\ lastOp.result.path = Builtin /\ lastOp.result.script = NonePath

(***************************************************************************)
(* Properties of the POSIX interpreter search (checked under SpecPosix)    *)
(***************************************************************************)
\* the names find_posix_python tries for a version, in order
PosixOrder(version) == <<PythonName(version), PythonName(<<version[1]>>), Python>>
\* the positions of that order whose name is in a directory of the resolved PATH
Resolving(version) == {k \in 1 .. 3 : Holding(PosixOrder(version)[k]) # {}}
FirstResolving(version) ==
    IF Resolving(version) = {} THEN NonePath
    ELSE FirstHolding(PosixOrder(version)[Least(Resolving(version))])
\* the names tried up to and including the first that resolves
TriedNames(version) ==
    {PosixOrder(version)[k] : k \in {j \in 1 .. 3 : \A i \in Resolving(version) : j <= i}}

\* C21: on POSIX, find_posix_python(version) searches python+<version as
\* given>, then python+<first character of version>, then python, in that
\* order, stops at the first name that resolves, and returns absent only when
\* all three fail; find_python returns an interpreter found that way only
\* when the version it probed of it satisfies the original request.
C21_PosixOrder ==
    /\ (lastOp.op = "find_posix_python" /\ lastOp.exc = "" /\ lastOp.version # <<>>) =>
          /\ lastOp.file = FirstResolving(lastOp.version)
          /\ nops = 1 => DOMAIN cache.find_executable = TriedNames(lastOp.version)
    /\ (/\ lastOp.op = "find_python" /\ lastOp.exc = ""
        /\ ~HostServes(lastOp.version, lastOp.module)
        /\ lastOp.result.path # NonePath) =>
          /\ lastOp.result.path = FirstResolving(lastOp.version)
          /\ Cached(cache.get_python_version, lastOp.result.path)
          /\ version_fulfills_request(cache.get_python_version[lastOp.result.path],
                                      Requested(lastOp.version))
          /\ lastOp.result.major = cache.get_python_version[lastOp.result.path].major

\* 3.8 was requested where python3.8 is not installed and python3 and python
\* are: python3 was found, answered 3.8 to -V, and was returned
C21_Witness ==
    /\ lastOp.op = "find_python" /\ lastOp.exc = "" /\ lastOp.version = <<"3", ".", "8">>
    /\ "find_posix_python" \in lastOp.ran /\ "get_python_version" \in lastOp.ran
    /\ fs = {Join("/a", Python), Join("/a", PythonName(<<"3">>))}
    /\ lastOp.result.path = Join("/a", PythonName(<<"3">>))
    /\ lastOp.result.major = 3 /\ lastOp.result.minor = 8

(***************************************************************************)
(* Properties of the command and the mirror (checked under SpecSeq)        *)
(***************************************************************************)
\* the command with the file's name at every placeholder, or as a new last
\* argument when it holds none
EveryAt(cmd) ==
    IF \E i \in 1 .. Len(cmd) : cmd[i] = "@"
    THEN [i \in 1 .. Len(cmd) |-> IF cmd[i] = "@" THEN "f.name" ELSE cmd[i]]
    ELSE Append(cmd, "f.name")

\* C22 as stated: tmpfile puts the temporary file's path at every position
\* of the command that holds the placeholder '@', and appends it as a new
\* last argument only when the command holds no placeholder; the other
\* arguments are unchanged and the caller's sequence is not modified.
C22_Original ==
    \A t \in Threads :
        (tcall[t].fn = "tmpfile" /\ tcall[t].pc \in {"popen", "communicate"}) =>
            /\ tcall[t].cmd = EveryAt(tcall[t].given)
            /\ tcall[t].given \in SeqCmds \cup TmpCmds

\* the files of the mirror of the call of t that hold the live payload
LiveFiles(t) == {k \in Under(tcall[t].tmp) : tfiles[k] = <<"live">>}
\* the call of t is a tmpdir that has built its whole mirror
Mirrored(t) ==
    /\ tcall[t].fn = "tmpdir" /\ tcall[t].pc \in {"chdir", "popen", "communicate"}
    /\ tcall[t].exc = ""

\* C23 as stated: in the mirror tmpdir builds from a list that holds the
\* edited file, exactly one file, the one with the edited file's name, holds
\* the live payload, and every other file of the list is a copy of its
\* content on disk at the same relative path.
C23_Original ==
    \A t \in Threads :
        (/\ Mirrored(t)
         /\ \E i \in 1 .. Len(tcall[t].files) : tcall[t].files[i].base = tcall[t].filename)
        => /\ Cardinality(LiveFiles(t)) = 1
           /\ \A k \in LiveFiles(t) : k[2].base = tcall[t].filename
           /\ \A i \in 1 .. Len(tcall[t].files) :
                 LET k == <<tcall[t].tmp, tcall[t].files[i]>>
                 IN  /\ k \in DOMAIN tfiles
                     /\ k \notin LiveFiles(t) => tfiles[k] = <<"disk", tcall[t].files[i]>>
====
